---- MODULE Spec2Model ----
(***************************************************************************)
(* Dynamic schema manager of food_webapp_V3.py: the catalog table          *)
(* table_settings, the physical data tables, and the handlers that create, *)
(* edit, delete and reorder table definitions.                             *)
(*                                                                         *)
(* Storage semantics assumed (sqlite3 module in its default, legacy        *)
(* transaction mode, Python >= 3.6; the f-string at line 1750 needs 3.12): *)
(*   - a transaction is opened implicitly before INSERT/UPDATE/DELETE;     *)
(*   - DDL (CREATE/DROP/ALTER TABLE) executed inside an open transaction   *)
(*     belongs to it, and conn.rollback() undoes it;                       *)
(*   - a statement that raises has no effect of its own.                   *)
(***************************************************************************)
EXTENDS Integers, Sequences, FiniteSets, TLC

VARIABLES table_settings, tables, last, calls

vars == <<table_settings, tables, last, calls>>

(***************************************************************************)
(* Bounds of the model.                                                    *)
(***************************************************************************)
\* longest label drawn from DeriveAlphabet under SpecDerive
MaxLabelLen == 2
\* largest display_order a reorder request supplies
MaxRank == 1
\* largest display_order create_table may assign before the model stops creating
MaxOrder == 2
\* rows kept in the whole store under SpecRows
MaxRows == 2
\* rows kept in the whole store under SpecCalls
MaxCallRows == 1

(***************************************************************************)
(* Input domains.                                                          *)
(***************************************************************************)
TableIds == {"pantry", "basement_freezer", "fridge"}

\* SQLite NULL, the value of a column an INSERT does not name
NULL == "<NULL>"

\* set(columns)
ToSet(seq) == {seq[i] : i \in 1..Len(seq)}

\* a column list CREATE TABLE accepts: non-empty, no repeated name
NoDuplicates(seq) == \A i, j \in 1..Len(seq) : seq[i] = seq[j] => i = j

\* default_tables of init_database
default_tables ==
  << [table_id |-> "pantry", table_name |-> "Pantry",
      columns |-> <<"item", "dateofpurchase", "amount">>,
      display_columns |-> <<"Item", "Date of Purchase", "Amount">>,
      display_order |-> 0],
     [table_id |-> "basement_freezer", table_name |-> "Basement Freezer",
      columns |-> <<"item", "dateofpurchase", "weight", "amount">>,
      display_columns |-> <<"Item", "Date of Purchase", "Weight", "Amount">>,
      display_order |-> 1] >>

\* the (table_name, columns, display_columns) arguments the model passes to
\* create_table and update_table: the two seeded shapes (the second a strict
\* superset of the first), a permutation of the first under other labels, a
\* shape sharing no column with the others, and a list with a repeated column
TableArgs ==
  { [table_name |-> "Pantry",
     columns |-> <<"item", "dateofpurchase", "amount">>,
     display_columns |-> <<"Item", "Date of Purchase", "Amount">>],
    [table_name |-> "Basement Freezer",
     columns |-> <<"item", "dateofpurchase", "weight", "amount">>,
     display_columns |-> <<"Item", "Date of Purchase", "Weight", "Amount">>],
    [table_name |-> "Larder",
     columns |-> <<"amount", "item", "dateofpurchase">>,
     display_columns |-> <<"Qty", "Name", "Bought">>],
    [table_name |-> "Fridge",
     columns |-> <<"expiration_date">>,
     display_columns |-> <<"Expiration Date">>],
    [table_name |-> "Fridge",
     columns |-> <<"item", "item">>,
     display_columns |-> <<"Item", "Item">>] }

\* request.form of an add_item POST: field name -> submitted text
Forms ==
  { [item |-> "milk", dateofpurchase |-> "2024-01-01", weight |-> "1 lb",
     amount |-> "1", expiration_date |-> "2025-01-01"],
    [item |-> "eggs"] }

\* request.form.get(col, '')
FormGet(form, col) == IF col \in DOMAIN form THEN form[col] ELSE ""

(***************************************************************************)
(* Text. A request field is a sequence of one-character strings, so that   *)
(* the routes' str methods can be modelled character by character; Str     *)
(* gives the string stored in the catalog.                                 *)
(***************************************************************************)
Uppercase ==
  <<"A", "B", "C", "D", "E", "F", "G", "H", "I", "J", "K", "L", "M",
    "N", "O", "P", "Q", "R", "S", "T", "U", "V", "W", "X", "Y", "Z">>

Lowercase ==
  <<"a", "b", "c", "d", "e", "f", "g", "h", "i", "j", "k", "l", "m",
    "n", "o", "p", "q", "r", "s", "t", "u", "v", "w", "x", "y", "z">>

Digits == <<"0", "1", "2", "3", "4", "5", "6", "7", "8", "9">>

\* the characters str.strip() removes (of those the model's fields use)
Whitespace == {" "}

RECURSIVE Str(_)
Str(text) == IF text = <<>> THEN "" ELSE Head(text) \o Str(Tail(text))

StrSeq(texts) == [i \in 1..Len(texts) |-> Str(texts[i])]

\* str.lower()
lower(text) ==
  [i \in 1..Len(text) |->
     IF \E k \in 1..Len(Uppercase) : Uppercase[k] = text[i]
     THEN Lowercase[CHOOSE k \in 1..Len(Uppercase) : Uppercase[k] = text[i]]
     ELSE text[i]]

\* c.isalnum()
isalnum(c) == c \in ToSet(Uppercase) \cup ToSet(Lowercase) \cup ToSet(Digits)

\* str.replace(old, new) for a one-character old
RECURSIVE replace(_, _, _)
replace(text, old, new) ==
  IF text = <<>> THEN <<>>
  ELSE (IF Head(text) = old THEN new ELSE <<Head(text)>>)
       \o replace(Tail(text), old, new)

\* str.replace('__', '_'): occurrences are found left to right, not overlapping
RECURSIVE replace_double_underscore(_)
replace_double_underscore(text) ==
  IF Len(text) < 2 THEN text
  ELSE IF text[1] = "_" /\ text[2] = "_"
  THEN <<"_">> \o replace_double_underscore(SubSeq(text, 3, Len(text)))
  ELSE <<text[1]>> \o replace_double_underscore(Tail(text))

has_double_underscore(text) ==
  \E i \in 1..(Len(text) - 1) : text[i] = "_" /\ text[i + 1] = "_"

\* the underscores collapsed by one pass of replace, without the while loop
collapse_underscores_once(text) == replace_double_underscore(text)

\* while '__' in col_name: col_name = col_name.replace('__', '_')
RECURSIVE collapse_underscores(_)
collapse_underscores(text) ==
  IF has_double_underscore(text)
  THEN collapse_underscores(replace_double_underscore(text))
  ELSE text

\* str.strip(chars)
RECURSIVE lstrip(_, _)
lstrip(text, chars) ==
  IF text # <<>> /\ Head(text) \in chars THEN lstrip(Tail(text), chars) ELSE text

RECURSIVE rstrip(_, _)
rstrip(text, chars) ==
  IF text # <<>> /\ text[Len(text)] \in chars
  THEN rstrip(SubSeq(text, 1, Len(text) - 1), chars)
  ELSE text

strip(text, chars) == rstrip(lstrip(text, chars), chars)

\* str.split(sep) for a one-character sep: one more piece than separators
RECURSIVE split(_, _)
split(text, sep) ==
  IF \A i \in 1..Len(text) : text[i] # sep
  THEN <<text>>
  ELSE LET i == CHOOSE i \in 1..Len(text) :
                  text[i] = sep /\ \A j \in 1..(i - 1) : text[j] # sep
       IN <<SubSeq(text, 1, i - 1)>> \o split(SubSeq(text, i + 1, Len(text)), sep)

\* the body of the for loop of add_table / edit_table: the column name of a label
col_name(display_col) ==
  LET replaced ==
        replace(replace(replace(replace(replace(replace(replace(
          lower(display_col),
          " ", <<"_">>), "-", <<"_">>), "&", <<"_">>), "(", <<"_">>),
          ")", <<"_">>), "$", <<>>), "/", <<"_">>)
      kept == SelectSeq(replaced, LAMBDA c : isalnum(c) \/ c = "_")
  IN strip(collapse_underscores(kept), {"_"})

\* [col.strip() for col in display_columns_str.split(',')]
display_columns_of(display_columns_str) ==
  LET pieces == split(display_columns_str, ",")
  IN [i \in 1..Len(pieces) |-> strip(pieces[i], Whitespace)]

\* the columns list the routes build from the labels
columns_of(display_columns) ==
  [i \in 1..Len(display_columns) |-> col_name(display_columns[i])]

(***************************************************************************)
(* The store: db.table_settings is the catalog (table_id -> row),          *)
(* db.tables the physical data tables (name -> fields and rows; rows are   *)
(* kept in rowid order).                                                   *)
(***************************************************************************)
Restrict(f, S) == [x \in S |-> f[x]]

Extend(f, k, v) == [x \in DOMAIN f \cup {k} |-> IF x = k THEN v ELSE f[x]]

(***************************************************************************)
(* SQL statements. Each returns [err, db]; err = TRUE means the statement  *)
(* raised and changed nothing.                                             *)
(***************************************************************************)
Done(db) == [err |-> FALSE, db |-> db]

Raised(db) == [err |-> TRUE, db |-> db]

\* INSERT INTO table_settings ...: table_id is the PRIMARY KEY
SqlInsertSettings(db, s) ==
  IF s.table_id \in DOMAIN db.table_settings
  THEN Raised(db)
  ELSE Done([db EXCEPT !.table_settings =
               Extend(@, s.table_id,
                      [table_name |-> s.table_name, columns |-> s.columns,
                       display_columns |-> s.display_columns,
                       display_order |-> s.display_order])])

\* UPDATE table_settings SET ... without its WHERE clause
SqlUpdateAllSettings(db, s) ==
  Done([db EXCEPT !.table_settings =
          [t \in DOMAIN @ |->
             [@[t] EXCEPT !.table_name = s.table_name, !.columns = s.columns,
                          !.display_columns = s.display_columns]]])

\* UPDATE table_settings SET table_name, columns, display_columns WHERE table_id
SqlUpdateSettings(db, s) ==
  IF s.table_id \in DOMAIN db.table_settings
  THEN Done([db EXCEPT !.table_settings[s.table_id] =
               [@ EXCEPT !.table_name = s.table_name, !.columns = s.columns,
                         !.display_columns = s.display_columns]])
  ELSE Done(db)

\* an UPDATE of display_order that inserts a row when no row matches
SqlUpsertOrder(db, s) ==
  IF s.table_id \in DOMAIN db.table_settings
  THEN Done([db EXCEPT !.table_settings[s.table_id].display_order = s.display_order])
  ELSE Done([db EXCEPT !.table_settings =
               Extend(@, s.table_id,
                      [table_name |-> s.table_id, columns |-> <<>>,
                       display_columns |-> <<>>,
                       display_order |-> s.display_order])])

\* UPDATE table_settings SET display_order WHERE table_id
SqlUpdateOrder(db, s) ==
  IF s.table_id \in DOMAIN db.table_settings
  THEN Done([db EXCEPT !.table_settings[s.table_id].display_order = s.display_order])
  ELSE Done(db)

\* DELETE FROM table_settings without its WHERE clause
SqlDeleteAllSettings(db, s) ==
  Done([db EXCEPT !.table_settings = <<>>])

\* DELETE FROM table_settings WHERE table_id
SqlDeleteSettings(db, s) ==
  Done([db EXCEPT !.table_settings = Restrict(@, DOMAIN @ \ {s.table_id})])

\* CREATE TABLE that replaces a table already stored under the name
SqlCreateTableReplacing(db, s) ==
  IF s.columns = <<>> \/ ~NoDuplicates(s.columns)
  THEN Raised(db)
  ELSE Done([db EXCEPT !.tables =
               Extend(@, s.name, [fields |-> s.columns, rows |-> <<>>])])

\* CREATE TABLE [IF NOT EXISTS] name ([col] TEXT, ...)
SqlCreateTable(db, s) ==
  IF s.columns = <<>> \/ ~NoDuplicates(s.columns)
  THEN Raised(db)
  ELSE IF s.name \in DOMAIN db.tables
  THEN (IF s.if_not_exists THEN Done(db) ELSE Raised(db))
  ELSE Done([db EXCEPT !.tables =
               Extend(@, s.name, [fields |-> s.columns, rows |-> <<>>])])

\* INSERT INTO target (cols) SELECT cols FROM source: the rows are read in
\* rowid order and appended with fresh rowids; unnamed fields are NULL
SqlInsertSelect(db, s) ==
  IF \/ s.source \notin DOMAIN db.tables
     \/ s.target \notin DOMAIN db.tables
  THEN Raised(db)
  ELSE LET src == db.tables[s.source]
           tgt == db.tables[s.target]
           base == IF tgt.rows = <<>> THEN 0 ELSE tgt.rows[Len(tgt.rows)].rowid
           copied == [i \in 1..Len(src.rows) |->
                        [rowid |-> base + i,
                         vals |-> [c \in ToSet(tgt.fields) |->
                                     IF c \in ToSet(s.columns)
                                     THEN src.rows[i].vals[c] ELSE NULL]]]
       IN IF ~(ToSet(s.columns) \subseteq ToSet(src.fields) \cap ToSet(tgt.fields))
          THEN Raised(db)
          ELSE Done([db EXCEPT !.tables[s.target].rows = @ \o copied])

\* DROP TABLE that raises on a missing table whether or not IF EXISTS is given
SqlDropTableStrict(db, s) ==
  IF s.name \in DOMAIN db.tables
  THEN Done([db EXCEPT !.tables = Restrict(@, DOMAIN @ \ {s.name})])
  ELSE Raised(db)

\* DROP TABLE name / DROP TABLE IF EXISTS name
SqlDropTable(db, s) ==
  IF s.name \in DOMAIN db.tables
  THEN Done([db EXCEPT !.tables = Restrict(@, DOMAIN @ \ {s.name})])
  ELSE IF s.if_exists THEN Done(db) ELSE Raised(db)

\* ALTER TABLE name RENAME TO to
SqlRenameTable(db, s) ==
  IF s.name \notin DOMAIN db.tables \/ s.to \in DOMAIN db.tables
  THEN Raised(db)
  ELSE Done([db EXCEPT !.tables =
               Extend(Restrict(@, DOMAIN @ \ {s.name}), s.to, @[s.name])])

\* INSERT INTO name (cols) VALUES (...): rowid is the largest rowid plus one
SqlInsertRow(db, s) ==
  IF s.name \notin DOMAIN db.tables
  THEN Raised(db)
  ELSE LET t == db.tables[s.name]
           rowid == IF t.rows = <<>> THEN 1 ELSE t.rows[Len(t.rows)].rowid + 1
       IN IF ~(ToSet(s.columns) \subseteq ToSet(t.fields))
          THEN Raised(db)
          ELSE Done([db EXCEPT !.tables[s.name].rows =
                       Append(@, [rowid |-> rowid,
                                  vals |-> [c \in ToSet(t.fields) |->
                                              IF c \in ToSet(s.columns)
                                              THEN s.values[c] ELSE NULL]])])

\* DELETE FROM name WHERE rowid = ?
SqlDeleteRow(db, s) ==
  IF s.name \notin DOMAIN db.tables
  THEN Raised(db)
  ELSE Done([db EXCEPT !.tables[s.name].rows =
               SelectSeq(@, LAMBDA row : row.rowid # s.rowid)])

\* UPDATE name SET [col] = ?, ... WHERE rowid = ?
SqlUpdateRow(db, s) ==
  IF s.name \notin DOMAIN db.tables
  THEN Raised(db)
  ELSE IF ~(ToSet(s.columns) \subseteq ToSet(db.tables[s.name].fields))
          \/ s.columns = <<>>
  THEN Raised(db)
  ELSE Done([db EXCEPT !.tables[s.name].rows =
               [i \in 1..Len(@) |->
                  IF @[i].rowid = s.rowid
                  THEN [@[i] EXCEPT !.vals =
                          [c \in DOMAIN @ |->
                             IF c \in ToSet(s.columns) THEN s.values[c] ELSE @[c]]]
                  ELSE @[i]]])

\* cur.execute(sql)
Execute(db, s) ==
  CASE s.sql = "INSERT_SETTINGS" -> SqlInsertSettings(db, s)
    [] s.sql = "UPDATE_SETTINGS" -> SqlUpdateSettings(db, s)
    [] s.sql = "UPDATE_ORDER" -> SqlUpdateOrder(db, s)
    [] s.sql = "DELETE_SETTINGS" -> SqlDeleteSettings(db, s)
    [] s.sql = "CREATE_TABLE" -> SqlCreateTable(db, s)
    [] s.sql = "INSERT_SELECT" -> SqlInsertSelect(db, s)
    [] s.sql = "DROP_TABLE" -> SqlDropTable(db, s)
    [] s.sql = "RENAME_TABLE" -> SqlRenameTable(db, s)
    [] s.sql = "INSERT_ROW" -> SqlInsertRow(db, s)
    [] s.sql = "DELETE_ROW" -> SqlDeleteRow(db, s)
    [] s.sql = "UPDATE_ROW" -> SqlUpdateRow(db, s)

(***************************************************************************)
(* Transactions. The handlers run their statements on one connection; the  *)
(* first INSERT/UPDATE/DELETE opens the transaction, conn.commit() makes   *)
(* the work durable, and the except branch calls conn.rollback().          *)
(* fault = k > 0 makes the k-th statement raise a storage error            *)
(* (sqlite3.OperationalError: disk full, I/O error, database locked)       *)
(* instead of executing; fault = 0 injects nothing.                        *)
(***************************************************************************)
RECURSIVE RunFrom(_, _, _, _)
RunFrom(cur, stmts, i, fault) ==
  IF i > Len(stmts) THEN Done(cur)
  ELSE IF i = fault THEN Raised(cur)
  ELSE LET r == Execute(cur, stmts[i])
       IN IF r.err THEN r ELSE RunFrom(r.db, stmts, i + 1, fault)

\* conn.rollback() keeps the work done so far (DDL committed on its own)
RollbackKeepsWork(snapshot, cur) == cur

\* conn.rollback(): the store is again what it was when the transaction began
Rollback(snapshot, cur) == snapshot

\* try: statements; conn.commit(); return True / except: conn.rollback(); raise
Transaction(db, stmts, fault) ==
  LET r == RunFrom(db, stmts, 1, fault)
  IN IF r.err
     THEN [ok |-> FALSE, db |-> Rollback(db, r.db)]
     ELSE [ok |-> TRUE, db |-> r.db]

(***************************************************************************)
(* get_tables_config: SELECT * FROM table_settings ORDER BY display_order, *)
(* table_id. The result is the list of table_ids in that order.            *)
(***************************************************************************)
\* position of a table_id in the BINARY collation order of the ids used
TableIdRank(t) ==
  CASE t = "basement_freezer" -> 1
    [] t = "fridge" -> 2
    [] t = "pantry" -> 3
    [] t = "pantry_temp" -> 4

ConfigBefore(db, a, b) ==
  LET oa == db.table_settings[a].display_order
      ob == db.table_settings[b].display_order
  IN oa < ob \/ (oa = ob /\ TableIdRank(a) < TableIdRank(b))

RECURSIVE SortedIds(_, _)
SortedIds(db, ids) ==
  IF ids = {} THEN <<>>
  ELSE LET first == CHOOSE a \in ids : \A b \in ids \ {a} : ConfigBefore(db, a, b)
       IN <<first>> \o SortedIds(db, ids \ {first})

get_tables_config(db) == SortedIds(db, DOMAIN db.table_settings)

(***************************************************************************)
(* The handlers, as functions of the store: each returns [ok, db], ok =    *)
(* FALSE when the call raised.                                             *)
(***************************************************************************)
\* SELECT MAX(display_order) FROM table_settings: None on an empty catalog
max_order(db) ==
  IF DOMAIN db.table_settings = {}
  THEN [is_none |-> TRUE, value |-> 0]
  ELSE [is_none |-> FALSE,
        value |-> CHOOSE m \in {db.table_settings[t].display_order :
                                  t \in DOMAIN db.table_settings} :
                    \A t \in DOMAIN db.table_settings :
                      db.table_settings[t].display_order <= m]

\* (max_order or -1) + 1: Python's `or` replaces None and also 0 by -1
next_order(db) ==
  (IF max_order(db).is_none \/ max_order(db).value = 0
   THEN -1 ELSE max_order(db).value) + 1

\* create_table whose INSERT binds the labels to the columns field
create_table_stmts_labels_as_columns(db, table_id, table_name, columns, display_columns) ==
  << [sql |-> "INSERT_SETTINGS", table_id |-> table_id, table_name |-> table_name,
      columns |-> display_columns, display_columns |-> display_columns,
      display_order |-> next_order(db)],
     [sql |-> "CREATE_TABLE", name |-> table_id, columns |-> columns,
      if_not_exists |-> FALSE] >>

create_table_stmts(db, table_id, table_name, columns, display_columns) ==
  << [sql |-> "INSERT_SETTINGS", table_id |-> table_id, table_name |-> table_name,
      columns |-> columns, display_columns |-> display_columns,
      display_order |-> next_order(db)],
     [sql |-> "CREATE_TABLE", name |-> table_id, columns |-> columns,
      if_not_exists |-> FALSE] >>

\* create_table that first removes a definition already stored under table_id
create_table_or_replace(db, table_id, table_name, columns, display_columns) ==
  Transaction(db,
              << [sql |-> "DELETE_SETTINGS", table_id |-> table_id],
                 [sql |-> "DROP_TABLE", name |-> table_id, if_exists |-> TRUE],
                 [sql |-> "INSERT_SETTINGS", table_id |-> table_id,
                  table_name |-> table_name, columns |-> columns,
                  display_columns |-> display_columns,
                  display_order |-> next_order(db)],
                 [sql |-> "CREATE_TABLE", name |-> table_id, columns |-> columns,
                  if_not_exists |-> FALSE] >>,
              0)

create_table(db, table_id, table_name, columns, display_columns) ==
  Transaction(db,
              create_table_stmts(db, table_id, table_name, columns, display_columns),
              0)

\* f"{table_id}_temp"
temp_table(table_id) == table_id \o "_temp"

\* the shared columns without the first of them
common_columns_but_first(columns, old_columns) ==
  LET shared == SelectSeq(columns, LAMBDA col : col \in ToSet(old_columns))
  IN IF shared = <<>> THEN <<>> ELSE Tail(shared)

\* [col for col in columns if col in old_columns]
common_columns(columns, old_columns) ==
  SelectSeq(columns, LAMBDA col : col \in ToSet(old_columns))

\* update_table that rewrites the catalog row and never touches the table
update_table_stmts_catalog_only(table_id, table_name, columns, display_columns, old_columns) ==
  << [sql |-> "UPDATE_SETTINGS", table_id |-> table_id, table_name |-> table_name,
      columns |-> columns, display_columns |-> display_columns] >>

\* update_table whose new table keeps the old columns next to the new ones
update_table_stmts_keep_old(table_id, table_name, columns, display_columns, old_columns) ==
  << [sql |-> "UPDATE_SETTINGS", table_id |-> table_id, table_name |-> table_name,
      columns |-> columns, display_columns |-> display_columns] >>
  \o (IF ToSet(columns) # ToSet(old_columns)
      THEN << [sql |-> "CREATE_TABLE", name |-> temp_table(table_id),
               columns |-> columns
                           \o SelectSeq(old_columns,
                                        LAMBDA col : col \notin ToSet(columns)),
               if_not_exists |-> FALSE],
              [sql |-> "INSERT_SELECT", target |-> temp_table(table_id),
               source |-> table_id, columns |-> old_columns],
              [sql |-> "DROP_TABLE", name |-> table_id, if_exists |-> FALSE],
              [sql |-> "RENAME_TABLE", name |-> temp_table(table_id),
               to |-> table_id] >>
      ELSE <<>>)

\* update_table that compares the column lists, not their sets
update_table_stmts_list_compare(table_id, table_name, columns, display_columns, old_columns) ==
  << [sql |-> "UPDATE_SETTINGS", table_id |-> table_id, table_name |-> table_name,
      columns |-> columns, display_columns |-> display_columns] >>
  \o (IF columns # old_columns
      THEN << [sql |-> "CREATE_TABLE", name |-> temp_table(table_id),
               columns |-> columns, if_not_exists |-> FALSE] >>
           \o (IF common_columns(columns, old_columns) # <<>>
               THEN << [sql |-> "INSERT_SELECT", target |-> temp_table(table_id),
                        source |-> table_id,
                        columns |-> common_columns(columns, old_columns)] >>
               ELSE <<>>)
           \o << [sql |-> "DROP_TABLE", name |-> table_id, if_exists |-> FALSE],
                 [sql |-> "RENAME_TABLE", name |-> temp_table(table_id),
                  to |-> table_id] >>
      ELSE <<>>)

\* the statements of update_table after old_columns has been read
update_table_stmts(table_id, table_name, columns, display_columns, old_columns) ==
  << [sql |-> "UPDATE_SETTINGS", table_id |-> table_id, table_name |-> table_name,
      columns |-> columns, display_columns |-> display_columns] >>
  \o (IF ToSet(columns) # ToSet(old_columns)
      THEN << [sql |-> "CREATE_TABLE", name |-> temp_table(table_id),
               columns |-> columns, if_not_exists |-> FALSE] >>
           \o (IF common_columns(columns, old_columns) # <<>>
               THEN << [sql |-> "INSERT_SELECT", target |-> temp_table(table_id),
                        source |-> table_id,
                        columns |-> common_columns(columns, old_columns)] >>
               ELSE <<>>)
           \o << [sql |-> "DROP_TABLE", name |-> table_id, if_exists |-> FALSE],
                 [sql |-> "RENAME_TABLE", name |-> temp_table(table_id),
                  to |-> table_id] >>
      ELSE <<>>)

\* update_table that inserts the catalog row and the table when they are missing
update_table_upsert(db, table_id, table_name, columns, display_columns, fault) ==
  IF table_id \notin DOMAIN db.table_settings
  THEN create_table(db, table_id, table_name, columns, display_columns)
  ELSE Transaction(db,
                   update_table_stmts(table_id, table_name, columns, display_columns,
                                      db.table_settings[table_id].columns),
                   fault)

\* cur.fetchone() is None for an unknown table_id: the subscript raises
\* TypeError inside the try block, before any statement has run
update_table(db, table_id, table_name, columns, display_columns, fault) ==
  IF table_id \notin DOMAIN db.table_settings
  THEN [ok |-> FALSE, db |-> Rollback(db, db)]
  ELSE Transaction(db,
                   update_table_stmts(table_id, table_name, columns, display_columns,
                                      db.table_settings[table_id].columns),
                   fault)

\* delete_table that removes the catalog row and leaves the table in place
delete_table_stmts_catalog_only(table_id) ==
  << [sql |-> "DELETE_SETTINGS", table_id |-> table_id],
     [sql |-> "DROP_TABLE", name |-> temp_table(table_id), if_exists |-> TRUE] >>

delete_table_stmts(table_id) ==
  << [sql |-> "DELETE_SETTINGS", table_id |-> table_id],
     [sql |-> "DROP_TABLE", name |-> table_id, if_exists |-> TRUE] >>

delete_table(db, table_id, fault) ==
  Transaction(db, delete_table_stmts(table_id), fault)

\* for table_id, new_order in table_orders.items(): one UPDATE each
RECURSIVE update_table_order_stmts(_)
update_table_order_stmts(table_orders) ==
  IF DOMAIN table_orders = {} THEN <<>>
  ELSE LET table_id == CHOOSE t \in DOMAIN table_orders : TRUE
       IN << [sql |-> "UPDATE_ORDER", table_id |-> table_id,
              display_order |-> table_orders[table_id]] >>
          \o update_table_order_stmts(
               Restrict(table_orders, DOMAIN table_orders \ {table_id}))

update_table_order(db, table_orders) ==
  Transaction(db, update_table_order_stmts(table_orders), 0)

\* add_item (POST): an unknown tab falls back to the first configured table;
\* with an empty catalog tables['pantry'] raises KeyError and nothing is written
add_item(db, tab, form) ==
  LET config == get_tables_config(db)
      table_name == IF tab \in DOMAIN db.table_settings THEN tab
                    ELSE IF config # <<>> THEN config[1] ELSE "pantry"
  IN IF table_name \notin DOMAIN db.table_settings
     THEN [ok |-> FALSE, db |-> db]
     ELSE LET columns == db.table_settings[table_name].columns
              r == RunFrom(db,
                           << [sql |-> "INSERT_ROW", name |-> table_name,
                               columns |-> columns,
                               values |-> [c \in ToSet(columns) |-> FormGet(form, c)]] >>,
                           1, 0)
          IN IF r.err THEN [ok |-> FALSE, db |-> db] ELSE [ok |-> TRUE, db |-> r.db]

\* edit_item (POST): the same fallback as add_item; with an empty catalog
\* tables['pantry'] raises KeyError and nothing is written
edit_item(db, tab, rowid, form) ==
  LET config == get_tables_config(db)
      table_name == IF tab \in DOMAIN db.table_settings THEN tab
                    ELSE IF config # <<>> THEN config[1] ELSE "pantry"
  IN IF table_name \notin DOMAIN db.table_settings
     THEN [ok |-> FALSE, db |-> db]
     ELSE LET columns == db.table_settings[table_name].columns
              r == RunFrom(db,
                           << [sql |-> "UPDATE_ROW", name |-> table_name,
                               rowid |-> rowid, columns |-> columns,
                               values |-> [c \in ToSet(columns) |-> FormGet(form, c)]] >>,
                           1, 0)
          IN IF r.err THEN [ok |-> FALSE, db |-> db] ELSE [ok |-> TRUE, db |-> r.db]

\* delete_item: the same fallback; with an empty catalog the DELETE names
\* the missing table pantry and raises
delete_item(db, tab, rowid) ==
  LET config == get_tables_config(db)
      table_name == IF tab \in DOMAIN db.table_settings THEN tab
                    ELSE IF config # <<>> THEN config[1] ELSE "pantry"
      r == RunFrom(db, << [sql |-> "DELETE_ROW", name |-> table_name,
                           rowid |-> rowid] >>, 1, 0)
  IN IF r.err THEN [ok |-> FALSE, db |-> db] ELSE [ok |-> TRUE, db |-> r.db]

(***************************************************************************)
(* The routes of the settings page. form holds the fields of the request   *)
(* as text; a route never raises: ok = FALSE when it flashed an error.     *)
(***************************************************************************)
\* add_table
add_table(db, form) ==
  LET table_id == strip(form.table_id, Whitespace)
      table_name == strip(form.table_name, Whitespace)
      display_columns == display_columns_of(form.display_columns)
      columns == columns_of(display_columns)
  IN IF table_id = <<>> \/ table_name = <<>> \/ form.display_columns = <<>>
     THEN [ok |-> FALSE, db |-> db]
     ELSE IF Len(columns) # Len(display_columns)
     THEN [ok |-> FALSE, db |-> db]
     ELSE create_table(db, Str(table_id), Str(table_name),
                       StrSeq(columns), StrSeq(display_columns))

\* edit_table
edit_table(db, form) ==
  LET table_id == strip(form.table_id, Whitespace)
      table_name == strip(form.table_name, Whitespace)
      display_columns == display_columns_of(form.display_columns)
      columns == columns_of(display_columns)
  IN IF table_id = <<>> \/ table_name = <<>> \/ form.display_columns = <<>>
     THEN [ok |-> FALSE, db |-> db]
     ELSE IF Len(columns) # Len(display_columns)
     THEN [ok |-> FALSE, db |-> db]
     ELSE update_table(db, Str(table_id), Str(table_name),
                       StrSeq(columns), StrSeq(display_columns), 0)

\* delete_table_route
delete_table_route(db, table_id) ==
  IF table_id \in ToSet(get_tables_config(db))
  THEN delete_table(db, table_id, 0)
  ELSE [ok |-> FALSE, db |-> db]

\* update_table_order_route: data.get('table_orders', {})
update_table_order_route(db, table_orders) ==
  IF DOMAIN table_orders # {}
  THEN update_table_order(db, table_orders)
  ELSE [ok |-> FALSE, db |-> db]

(***************************************************************************)
(* init_database on a store with no catalog rows, then ensure_pantry_first *)
(***************************************************************************)
EmptyDb == [table_settings |-> <<>>, tables |-> <<>>]

RECURSIVE init_database_stmts(_)
init_database_stmts(i) ==
  IF i > Len(default_tables) THEN <<>>
  ELSE << [sql |-> "INSERT_SETTINGS", table_id |-> default_tables[i].table_id,
           table_name |-> default_tables[i].table_name,
           columns |-> default_tables[i].columns,
           display_columns |-> default_tables[i].display_columns,
           display_order |-> default_tables[i].display_order],
          [sql |-> "CREATE_TABLE", name |-> default_tables[i].table_id,
           columns |-> default_tables[i].columns, if_not_exists |-> TRUE] >>
       \o init_database_stmts(i + 1)

\* the rows ensure_pantry_first may fetch: SELECT ... ORDER BY display_order
\* leaves the order of rows with equal display_order to the engine
RECURSIVE Orderings(_)
Orderings(S) ==
  IF S = {} THEN {<<>>}
  ELSE UNION {{<<x>> \o p : p \in Orderings(S \ {x})} : x \in S}

ByDisplayOrder(db) ==
  {p \in Orderings(DOMAIN db.table_settings) :
     \A i, j \in 1..Len(p) :
       i < j => db.table_settings[p[i]].display_order
                  <= db.table_settings[p[j]].display_order}

\* the renumbering loop without its test for pantry
RECURSIVE ensure_pantry_first_stmts_all_rows(_, _)
ensure_pantry_first_stmts_all_rows(fetched, new_order) ==
  IF fetched = <<>> THEN <<>>
  ELSE << [sql |-> "UPDATE_ORDER", table_id |-> Head(fetched),
           display_order |-> new_order] >>
       \o ensure_pantry_first_stmts_all_rows(Tail(fetched), new_order + 1)

RECURSIVE ensure_pantry_first_stmts(_, _)
ensure_pantry_first_stmts(fetched, new_order) ==
  IF fetched = <<>> THEN <<>>
  ELSE IF Head(fetched) = "pantry"
  THEN ensure_pantry_first_stmts(Tail(fetched), new_order)
  ELSE << [sql |-> "UPDATE_ORDER", table_id |-> Head(fetched),
           display_order |-> new_order] >>
       \o ensure_pantry_first_stmts(Tail(fetched), new_order + 1)

\* fetched is the result of the SELECT at line 118
ensure_pantry_first(db, fetched) ==
  IF "pantry" \in DOMAIN db.table_settings
     /\ db.table_settings["pantry"].display_order # 0
  THEN RunFrom(db,
               << [sql |-> "UPDATE_ORDER", table_id |-> "pantry",
                   display_order |-> 0] >>
               \o ensure_pantry_first_stmts(fetched, 1),
               1, 0).db
  ELSE db

\* the part of init_database before ensure_pantry_first
init_database(db) ==
  IF DOMAIN db.table_settings = {}
  THEN RunFrom(db, init_database_stmts(1), 1, 0).db
  ELSE db

(***************************************************************************)
(* State machine. table_settings and tables are the store; last records    *)
(* the most recent call: its operation, the injected fault, whether it     *)
(* returned (ok) or raised, and, when the specification keeps the full     *)
(* history (h = TRUE), its table_id and arguments, whether it repeats the  *)
(* previous successful call (again) and the store it started from (pre).   *)
(* calls holds the calls in flight: those that have read the catalog and   *)
(* not yet run their write transaction.                                    *)
(***************************************************************************)
Db == [table_settings |-> table_settings, tables |-> tables]

SeededIds == {default_tables[i].table_id : i \in 1..Len(default_tables)}

\* the mappings a reorder request supplies: table_id -> new display_order
TableOrders ==
  UNION {[keys -> 0..MaxRank] : keys \in (SUBSET TableIds) \ {{}}}

\* the reorder request of Scenario D and the one that undoes it
ScenarioOrders ==
  { [pantry |-> MaxRank, basement_freezer |-> 0],
    [pantry |-> 0, basement_freezer |-> 1] }

RECURSIVE RowCountOf(_, _)
RowCountOf(db, names) ==
  IF names = {} THEN 0
  ELSE LET n == CHOOSE n \in names : TRUE
       IN Len(db.tables[n].rows) + RowCountOf(db, names \ {n})

RowCount(db) == RowCountOf(db, DOMAIN db.tables)

\* the value of last after a call that gave r
Record(h, op, table_id, args, fault, r) ==
  [op |-> op, fault |-> fault, ok |-> r.ok,
   table_id |-> IF h THEN table_id ELSE "",
   args |-> IF h THEN args ELSE <<>>,
   again |-> h /\ last.op = op /\ last.table_id = table_id /\ last.ok,
   pre |-> IF h THEN Db ELSE EmptyDb]

Init ==
  \E fetched \in ByDisplayOrder(init_database(EmptyDb)) :
    LET db == ensure_pantry_first(init_database(EmptyDb), fetched)
    IN /\ table_settings = db.table_settings
       /\ tables = db.tables
       /\ last = [op |-> "init_database", table_id |-> "", fault |-> 0,
                  ok |-> TRUE, args |-> <<>>, again |-> FALSE, pre |-> EmptyDb]
       /\ calls = <<>>

create_table_call(h, table_id, a) ==
  LET r == create_table(Db, table_id, a.table_name, a.columns, a.display_columns)
  IN /\ next_order(Db) <= MaxOrder
     /\ table_settings' = r.db.table_settings
     /\ tables' = r.db.tables
     /\ last' = Record(h, "create_table", table_id, a, 0, r)
     /\ UNCHANGED calls

\* the statements an update_table call would run, numbered for fault injection
UpdateFaults(table_id, a) ==
  IF table_id \in DOMAIN table_settings
  THEN 0..Len(update_table_stmts(table_id, a.table_name, a.columns,
                                 a.display_columns,
                                 table_settings[table_id].columns))
  ELSE {0}

update_table_call(h, table_id, a, fault) ==
  LET r == update_table(Db, table_id, a.table_name, a.columns, a.display_columns,
                        fault)
  IN /\ table_settings' = r.db.table_settings
     /\ tables' = r.db.tables
     /\ last' = Record(h, "update_table", table_id, a, fault, r)
     /\ UNCHANGED calls

delete_table_call(h, table_id, fault) ==
  LET r == delete_table(Db, table_id, fault)
  IN /\ table_settings' = r.db.table_settings
     /\ tables' = r.db.tables
     /\ last' = Record(h, "delete_table", table_id, <<>>, fault, r)
     /\ UNCHANGED calls

update_table_order_call(h, table_orders) ==
  LET r == update_table_order(Db, table_orders)
  IN /\ table_settings' = r.db.table_settings
     /\ tables' = r.db.tables
     /\ last' = Record(h, "update_table_order", "", table_orders, 0, r)
     /\ UNCHANGED calls

add_item_call(h, tab, form, limit) ==
  LET r == add_item(Db, tab, form)
  IN /\ RowCount(Db) < limit
     /\ table_settings' = r.db.table_settings
     /\ tables' = r.db.tables
     /\ last' = Record(h, "add_item", tab, form, 0, r)
     /\ UNCHANGED calls

(***************************************************************************)
(* Spec: every schema operation on three table_ids, with storage faults in *)
(* update_table and delete_table; the history keeps the call, not the      *)
(* store before it.                                                        *)
(***************************************************************************)
Next ==
  \/ \E t \in TableIds, a \in TableArgs : create_table_call(FALSE, t, a)
  \/ \E t \in TableIds, a \in TableArgs :
       \E fault \in UpdateFaults(t, a) : update_table_call(FALSE, t, a, fault)
  \/ \E t \in TableIds :
       \E fault \in 0..Len(delete_table_stmts(t)) : delete_table_call(FALSE, t, fault)
  \/ \E o \in ScenarioOrders : update_table_order_call(FALSE, o)

Spec == Init /\ [][Next]_vars

(***************************************************************************)
(* SpecRows: rows are added to the seeded tables and the tables are        *)
(* edited, with storage faults; full history.                              *)
(***************************************************************************)
MigrationArgs == {a \in TableArgs : a.table_name # "Larder"}

NextRows ==
  \/ \E t \in SeededIds, f \in Forms : add_item_call(TRUE, t, f, MaxRows)
  \/ \E t \in SeededIds, a \in MigrationArgs :
       \E fault \in UpdateFaults(t, a) : update_table_call(TRUE, t, a, fault)

SpecRows == Init /\ [][NextRows]_vars

(***************************************************************************)
(* SpecCalls: create, edit and delete on the seeded table_ids, at most     *)
(* MaxCallRows rows in the store, no injected fault; full history.         *)
(***************************************************************************)
NextCalls ==
  \/ \E t \in SeededIds, a \in TableArgs : create_table_call(TRUE, t, a)
  \/ \E t \in SeededIds, a \in TableArgs : update_table_call(TRUE, t, a, 0)
  \/ \E t \in SeededIds : delete_table_call(TRUE, t, 0)
  \/ \E t \in SeededIds, f \in Forms : add_item_call(TRUE, t, f, MaxCallRows)

SpecCalls == Init /\ [][NextCalls]_vars

(***************************************************************************)
(* SpecOrder: create, delete and reorder on three table_ids, every         *)
(* reorder mapping with ranks up to MaxRank; full history.                 *)
(* SpecCreateReorder is the same without delete_table.                     *)
(***************************************************************************)
OrderArgs == {a \in TableArgs : a.table_name = "Fridge"}

NextCreateReorder ==
  \/ \E t \in TableIds, a \in OrderArgs : create_table_call(TRUE, t, a)
  \/ \E o \in TableOrders : update_table_order_call(TRUE, o)

NextOrder ==
  \/ NextCreateReorder
  \/ \E t \in TableIds : delete_table_call(TRUE, t, 0)

SpecOrder == Init /\ [][NextOrder]_vars

SpecCreateReorder == Init /\ [][NextCreateReorder]_vars

(***************************************************************************)
(* SpecRoutes: the requests of the settings page; full history, the form   *)
(* of the request in last.args.                                            *)
(***************************************************************************)
\* the table_id fields submitted: a seeded id and a new id behind a blank
RouteTableIds ==
  { <<"p", "a", "n", "t", "r", "y">>,
    <<" ", "f", "r", "i", "d", "g", "e">> }

\* the table_name field submitted
RouteTableName == <<"F", "r", "i", "d", "g", "e">>

\* the display_columns fields submitted: one label; the same label twice;
\* two labels that differ in case only; the labels of the seeded pantry
\* table; a label with blank, parenthesis and dollar sign
RouteDisplayColumns ==
  { <<"I", "t", "e", "m">>,
    <<"I", "t", "e", "m", ",", " ", "I", "t", "e", "m">>,
    <<"I", "t", "e", "m", ",", "i", "t", "e", "m">>,
    <<"I", "t", "e", "m", ",", " ", "D", "a", "t", "e", " ", "o", "f",
      " ", "P", "u", "r", "c", "h", "a", "s", "e", ",", " ", "A", "m",
      "o", "u", "n", "t">>,
    <<"C", "o", "s", "t", " ", "(", "$", ")">> }

\* the forms submitted: every table_id with every display_columns, and one
\* form for each required field left empty or blank
RouteForms ==
  [table_id : RouteTableIds, table_name : {RouteTableName},
   display_columns : RouteDisplayColumns]
  \cup { [table_id |-> <<>>, table_name |-> RouteTableName,
          display_columns |-> <<"I", "t", "e", "m">>],
         [table_id |-> <<"p", "a", "n", "t", "r", "y">>, table_name |-> <<" ">>,
          display_columns |-> <<"I", "t", "e", "m">>],
         [table_id |-> <<"p", "a", "n", "t", "r", "y">>,
          table_name |-> RouteTableName, display_columns |-> <<>>] }

\* the table_id a form names
FormTableId(form) == Str(strip(form.table_id, Whitespace))

add_table_call(form) ==
  LET r == add_table(Db, form)
  IN /\ next_order(Db) <= MaxOrder
     /\ table_settings' = r.db.table_settings
     /\ tables' = r.db.tables
     /\ last' = Record(TRUE, "add_table", FormTableId(form), form, 0, r)
     /\ UNCHANGED calls

edit_table_call(form) ==
  LET r == edit_table(Db, form)
  IN /\ table_settings' = r.db.table_settings
     /\ tables' = r.db.tables
     /\ last' = Record(TRUE, "edit_table", FormTableId(form), form, 0, r)
     /\ UNCHANGED calls

delete_table_route_call(table_id) ==
  LET r == delete_table_route(Db, table_id)
  IN /\ table_settings' = r.db.table_settings
     /\ tables' = r.db.tables
     /\ last' = Record(TRUE, "delete_table_route", table_id, <<>>, 0, r)
     /\ UNCHANGED calls

update_table_order_route_call(table_orders) ==
  LET r == update_table_order_route(Db, table_orders)
  IN /\ table_settings' = r.db.table_settings
     /\ tables' = r.db.tables
     /\ last' = Record(TRUE, "update_table_order_route", "", table_orders, 0, r)
     /\ UNCHANGED calls

NextRoutes ==
  \/ \E form \in RouteForms : add_table_call(form)
  \/ \E form \in RouteForms : edit_table_call(form)
  \/ \E t \in TableIds : delete_table_route_call(t)
  \/ \E o \in ScenarioOrders \cup {<<>>} : update_table_order_route_call(o)

SpecRoutes == Init /\ [][NextRoutes]_vars

(***************************************************************************)
(* SpecStartup: SpecOrder and restarts of the program, each of which runs  *)
(* init_database on the store as it is (a store this program created: the  *)
(* branch that adds a missing display_order column is never taken).        *)
(***************************************************************************)
\* init_database() at module load, ensure_pantry_first included
init_database_call(h) ==
  \E fetched \in ByDisplayOrder(init_database(Db)) :
    LET db == ensure_pantry_first(init_database(Db), fetched)
    IN /\ table_settings' = db.table_settings
       /\ tables' = db.tables
       /\ last' = Record(h, "init_database", "", <<>>, 0, [ok |-> TRUE, db |-> db])
       /\ UNCHANGED calls

NextStartup ==
  \/ \E t \in TableIds, a \in OrderArgs : create_table_call(TRUE, t, a)
  \/ \E o \in TableOrders : update_table_order_call(TRUE, o)
  \/ \E t \in TableIds : delete_table_call(TRUE, t, 0)
  \/ init_database_call(TRUE)

SpecStartup == Init /\ [][NextStartup]_vars

(***************************************************************************)
(* SpecNoReorder: create, edit and delete on three table_ids, no reorder   *)
(* request and no delete of pantry; the history keeps the call only.       *)
(***************************************************************************)
NextNoReorder ==
  \/ \E t \in TableIds, a \in TableArgs : create_table_call(FALSE, t, a)
  \/ \E t \in TableIds, a \in TableArgs : update_table_call(FALSE, t, a, 0)
  \/ \E t \in TableIds \ {"pantry"} : delete_table_call(FALSE, t, 0)

SpecNoReorder == Init /\ [][NextNoReorder]_vars

(***************************************************************************)
(* SpecDerive: add_table requests for a new table_id, one label each: the  *)
(* labels of the examples and every text of up to MaxLabelLen characters   *)
(* over DeriveAlphabet; delete_table_route makes room for the next.        *)
(***************************************************************************)
\* a capital, a small letter, and characters the derivation replaces,
\* removes, collapses or trims
DeriveAlphabet == {"A", "b", " ", "-", "_", "$", "."}

DeriveExamples ==
  { <<"B", "e", "s", "t", "-", "B", "y", " ", "(", "D", "a", "t", "e", ")">>,
    <<"D", "a", "t", "e", " ", "o", "f", " ", "P", "u", "r", "c", "h", "a", "s", "e">>,
    <<"A", " ", "-", " ", "b">>,
    <<"x", "/", "y", "&", "z", "(", "1", ")">> }

DeriveLabels ==
  DeriveExamples \cup UNION {[1..n -> DeriveAlphabet] : n \in 1..MaxLabelLen}

DeriveForms ==
  [table_id : {<<"f", "r", "i", "d", "g", "e">>}, table_name : {RouteTableName},
   display_columns : DeriveLabels]

NextDerive ==
  \/ \E form \in DeriveForms :
       /\ FormTableId(form) \notin DOMAIN table_settings
       /\ add_table_call(form)
  \/ delete_table_route_call("fridge")

SpecDerive == Init /\ [][NextDerive]_vars

(***************************************************************************)
(* SpecTemp: a user table whose table_id is the temp name of pantry is     *)
(* created beside pantry; rows are added and both tables are edited; full  *)
(* history, at most MaxCallRows rows in the store.                         *)
(***************************************************************************)
TempIds == {"pantry", temp_table("pantry")}

TempArgs == {a \in MigrationArgs : NoDuplicates(a.columns)}

NextTemp ==
  \/ \E a \in TempArgs : create_table_call(TRUE, temp_table("pantry"), a)
  \/ \E t \in TempIds, a \in TempArgs : update_table_call(TRUE, t, a, 0)
  \/ delete_table_call(TRUE, temp_table("pantry"), 0)
  \/ \E t \in TempIds, f \in Forms : add_item_call(TRUE, t, f, MaxCallRows)

SpecTemp == Init /\ [][NextTemp]_vars

(***************************************************************************)
(* SpecItems: rows are added, edited and deleted under the tab parameters  *)
(* of TableIds, of which fridge names no table unless the seeded tables    *)
(* are deleted; full history, at most MaxRows rows in the store.           *)
(***************************************************************************)
edit_item_call(tab, rowid, form) ==
  LET r == edit_item(Db, tab, rowid, form)
  IN /\ table_settings' = r.db.table_settings
     /\ tables' = r.db.tables
     /\ last' = Record(TRUE, "edit_item", tab, [rowid |-> rowid, form |-> form], 0, r)
     /\ UNCHANGED calls

delete_item_call(tab, rowid) ==
  LET r == delete_item(Db, tab, rowid)
  IN /\ table_settings' = r.db.table_settings
     /\ tables' = r.db.tables
     /\ last' = Record(TRUE, "delete_item", tab, [rowid |-> rowid], 0, r)
     /\ UNCHANGED calls

NextItems ==
  \/ \E t \in TableIds, f \in Forms : add_item_call(TRUE, t, f, MaxRows)
  \/ \E t \in TableIds, rowid \in 1..MaxRows, f \in Forms : edit_item_call(t, rowid, f)
  \/ \E t \in TableIds, rowid \in 1..MaxRows : delete_item_call(t, rowid)
  \/ \E t \in SeededIds : delete_table_call(TRUE, t, 0)

SpecItems == Init /\ [][NextItems]_vars

(***************************************************************************)
(* SpecRace: two requests served at the same time (the server handles each *)
(* request on its own thread and connection). A call first reads the       *)
(* catalog (update_table: old_columns; create_table: MAX(display_order))   *)
(* outside any transaction, then runs its statements in one write          *)
(* transaction; the engine runs the write transactions one after another.  *)
(* calls[p] keeps, for the call of p: its arguments, the catalog it read   *)
(* (seen), how many calls had written when it read (after), its position   *)
(* pc ("read": has read, "done": has returned or raised), whether it       *)
(* returned (ok), and its place among the writes (seq).                    *)
(***************************************************************************)
Procs == {"A", "B"}

RaceNewIds == {"fridge", "pantry_temp"}

RaceUpdateIds == {"pantry", "fridge"}

Written == Cardinality({p \in DOMAIN calls : calls[p].pc = "done"})

Started(p, op, table_id, a, pc) ==
  Extend(calls, p, [op |-> op, table_id |-> table_id, args |-> a, seen |-> Db,
                    after |-> Written, pc |-> pc, ok |-> FALSE, seq |-> 0])

\* update_table up to old_columns = json.loads(cur.fetchone()['columns']):
\* on an unknown table_id the subscript raises and the call is over
update_table_read(p, table_id, a) ==
  /\ p \notin DOMAIN calls
  /\ calls' = Started(p, "update_table", table_id, a,
                      IF table_id \in DOMAIN table_settings THEN "read" ELSE "done")
  /\ UNCHANGED <<table_settings, tables, last>>

\* update_table from the UPDATE to conn.commit(), with the old_columns read
update_table_write(p) ==
  /\ p \in DOMAIN calls
  /\ calls[p].op = "update_table"
  /\ calls[p].pc = "read"
  /\ LET c == calls[p]
         r == Transaction(Db,
                          update_table_stmts(c.table_id, c.args.table_name,
                                             c.args.columns, c.args.display_columns,
                                             c.seen.table_settings[c.table_id].columns),
                          0)
     IN /\ table_settings' = r.db.table_settings
        /\ tables' = r.db.tables
        /\ last' = Record(FALSE, "update_table", c.table_id, c.args, 0, r)
        /\ calls' = [calls EXCEPT ![p].pc = "done", ![p].ok = r.ok,
                                  ![p].seq = Written + 1]

\* create_table up to next_order = (max_order or -1) + 1
create_table_read(p, table_id, a) ==
  /\ p \notin DOMAIN calls
  /\ calls' = Started(p, "create_table", table_id, a, "read")
  /\ UNCHANGED <<table_settings, tables, last>>

\* create_table from the INSERT to conn.commit(), with the next_order computed
create_table_write(p) ==
  /\ p \in DOMAIN calls
  /\ calls[p].op = "create_table"
  /\ calls[p].pc = "read"
  /\ LET c == calls[p]
         r == Transaction(Db,
                          create_table_stmts(c.seen, c.table_id, c.args.table_name,
                                             c.args.columns, c.args.display_columns),
                          0)
     IN /\ table_settings' = r.db.table_settings
        /\ tables' = r.db.tables
        /\ last' = Record(FALSE, "create_table", c.table_id, c.args, 0, r)
        /\ calls' = [calls EXCEPT ![p].pc = "done", ![p].ok = r.ok,
                                  ![p].seq = Written + 1]

NextRace ==
  \/ \E p \in Procs, t \in RaceUpdateIds, a \in TableArgs : update_table_read(p, t, a)
  \/ \E p \in Procs : update_table_write(p)
  \/ \E p \in Procs, t \in RaceNewIds, a \in OrderArgs : create_table_read(p, t, a)
  \/ \E p \in Procs : create_table_write(p)

SpecRace == Init /\ [][NextRace]_vars

(***************************************************************************)
(* Properties.                                                             *)
(***************************************************************************)
\* the call recorded in last was made on a table_id the catalog held
OnExisting == last.table_id \in DOMAIN last.pre.table_settings

OldColumns == last.pre.table_settings[last.table_id].columns

OldRows == last.pre.tables[last.table_id].rows

NewRows == tables[last.table_id].rows

\* C1: every definition of the catalog has a physical table of the same
\* table_id whose field set equals the set of the definition's columns
C1_SchemaPhysicalConsistency ==
  \A t \in DOMAIN table_settings :
    /\ t \in DOMAIN tables
    /\ ToSet(tables[t].fields) = ToSet(table_settings[t].columns)

\* an edit that raised after its catalog UPDATE had run (fault at the DROP)
C1_Witness ==
  /\ last.op = "update_table"
  /\ ~last.ok
  /\ last.fault = 4
  /\ \E t \in DOMAIN table_settings :
       ToSet(table_settings[t].columns) = {"expiration_date"}

\* C2: every physical table is named by a catalog entry; no "<table_id>_temp"
\* table is left behind by a call, whether it returned or raised
C2_NoOrphanStorage ==
  /\ DOMAIN tables \subseteq DOMAIN table_settings
  /\ \A t \in TableIds : temp_table(t) \notin DOMAIN tables

\* a migration that raised at its last statement, the temp table in place
C2_Witness ==
  /\ last.op = "update_table"
  /\ ~last.ok
  /\ last.fault = 5

\* C3: whenever a definition with table_id "pantry" exists, its
\* display_order is 0
C3_PantryFirst ==
  "pantry" \in DOMAIN table_settings
    => table_settings["pantry"].display_order = 0

\* C4: an update_table whose new columns are a strict superset of the old
\* ones leaves every pre-existing row in the table, in rowid order, with its
\* previous value in every old column
C4_LosslessSupersetMigration ==
  (/\ last.op = "update_table"
   /\ OnExisting
   /\ ToSet(OldColumns) \subseteq ToSet(last.args.columns)
   /\ ToSet(OldColumns) # ToSet(last.args.columns))
    => /\ last.table_id \in DOMAIN tables
       /\ Len(NewRows) = Len(OldRows)
       /\ \A i \in 1..Len(OldRows) :
            \A c \in ToSet(OldColumns) : NewRows[i].vals[c] = OldRows[i].vals[c]

\* a superset migration that returned on a table holding two different rows
C4_Witness ==
  /\ last.op = "update_table"
  /\ last.ok
  /\ OnExisting
  /\ ToSet(OldColumns) \subseteq ToSet(last.args.columns)
  /\ ToSet(OldColumns) # ToSet(last.args.columns)
  /\ Len(OldRows) = 2
  /\ OldRows[1].vals # OldRows[2].vals
  /\ "weight" \in ToSet(tables[last.table_id].fields)

\* the columns an edit removes, and the values the table held in them only
DroppedColumns == ToSet(OldColumns) \ ToSet(last.args.columns)

ValuesIn(rows, cols) == {rows[i].vals[c] : i \in 1..Len(rows), c \in cols}

DroppedOnlyValues ==
  ValuesIn(OldRows, DroppedColumns)
    \ ValuesIn(OldRows, ToSet(OldColumns) \ DroppedColumns)

\* C5: after an update_table that returns and whose new columns lack some
\* old column, the table has no field for a dropped column and no row holds
\* a value that was stored only in a dropped column
C5_LossyDroppedColumns ==
  (/\ last.op = "update_table"
   /\ last.ok
   /\ OnExisting
   /\ DroppedColumns # {})
    => /\ ToSet(tables[last.table_id].fields) \cap DroppedColumns = {}
       /\ \A i \in 1..Len(NewRows) :
            /\ DOMAIN NewRows[i].vals \cap DroppedColumns = {}
            /\ \A c \in DOMAIN NewRows[i].vals :
                 NewRows[i].vals[c] \notin DroppedOnlyValues

\* a migration that dropped a column in which a row held a value (the row
\* survives through the columns that stay)
C5_Witness ==
  /\ last.op = "update_table"
  /\ last.ok
  /\ OnExisting
  /\ DroppedOnlyValues # {}
  /\ NewRows # <<>>

\* C6: a storage failure at any statement of update_table after the catalog
\* UPDATE makes the call raise, and after any update_table that raised the
\* table has its original fields and rows under its original name, no
\* temp table is left, and the catalog row holds the old table_name,
\* columns and display_columns
C6_RollbackOnMigrationFailure ==
  (last.op = "update_table" /\ OnExisting)
    => /\ last.fault >= 2 => ~last.ok
       /\ ~last.ok =>
            /\ last.table_id \in DOMAIN tables
            /\ tables[last.table_id] = last.pre.tables[last.table_id]
            /\ temp_table(last.table_id) \notin DOMAIN tables
            /\ last.table_id \in DOMAIN table_settings
            /\ table_settings[last.table_id]
                 = last.pre.table_settings[last.table_id]

\* the copy step failed on a table that holds a row
C6_Witness ==
  /\ last.op = "update_table"
  /\ OnExisting
  /\ ~last.ok
  /\ last.fault = 3
  /\ common_columns(last.args.columns, OldColumns) # <<>>
  /\ OldRows # <<>>

\* C7: a delete_table that repeats the preceding successful delete_table on
\* the same table_id returns and leaves the store as the first call left it
C7_IdempotentDrop ==
  (last.op = "delete_table" /\ last.again)
    => /\ last.ok
       /\ Db = last.pre

\* the second of two delete_table calls in a row on the same table_id
C7_Witness ==
  /\ last.op = "delete_table"
  /\ last.again
  /\ last.table_id \notin DOMAIN last.pre.table_settings
  /\ DOMAIN table_settings # {}

\* max(existing display_order) + 1, or 0 when the catalog is empty
RankAfterMax(db) ==
  IF max_order(db).is_none THEN 0 ELSE max_order(db).value + 1

\* C8: a create_table that returns gives the new definition the
\* display_order max(existing display_order) + 1, or 0 on an empty catalog
C8_RankOnInsert ==
  (last.op = "create_table" /\ last.ok)
    => table_settings[last.table_id].display_order = RankAfterMax(last.pre)

\* C9: create_table with a table_id the catalog already holds raises and
\* leaves every definition, physical table and row as it was
C9_DuplicateIdRejected ==
  (last.op = "create_table" /\ OnExisting)
    => /\ ~last.ok
       /\ Db = last.pre

\* a duplicate create_table on a table that holds a row, beside another table
C9_Witness ==
  /\ last.op = "create_table"
  /\ OnExisting
  /\ OldRows # <<>>
  /\ DOMAIN table_settings # {last.table_id}

\* C10: update_table with a table_id the catalog does not hold raises,
\* adds no catalog entry, no physical table and no temp table, and leaves
\* the store as it was
C10_NotFoundOnEdit ==
  (last.op = "update_table" /\ ~OnExisting)
    => /\ ~last.ok
       /\ last.table_id \notin DOMAIN table_settings
       /\ last.table_id \notin DOMAIN tables
       /\ temp_table(last.table_id) \notin DOMAIN tables
       /\ Db = last.pre

\* an edit of a deleted table_id while another table holds a row
C10_Witness ==
  /\ last.op = "update_table"
  /\ ~OnExisting
  /\ \E t \in DOMAIN tables : tables[t].rows # <<>>

\* the catalog rows of the definitions other than the one the call names
OthersUnchanged ==
  \A t \in DOMAIN last.pre.table_settings \ {last.table_id} :
    /\ t \in DOMAIN table_settings
    /\ table_settings[t] = last.pre.table_settings[t]

\* the physical tables other than the one the call names
OtherTablesUnchanged ==
  \A t \in DOMAIN last.pre.tables \ {last.table_id} :
    /\ t \in DOMAIN tables
    /\ tables[t] = last.pre.tables[t]

\* C11: an update_table whose new columns have the same set as the old
\* ones returns, leaves every physical table (fields and rows) as it was and
\* changes only table_name, columns and display_columns of the edited
\* catalog row, which take the values passed
C11_SetUnchangedEditIsCatalogOnly ==
  (/\ last.op = "update_table"
   /\ OnExisting
   /\ ToSet(OldColumns) = ToSet(last.args.columns))
    => /\ last.ok
       /\ tables = last.pre.tables
       /\ DOMAIN table_settings = DOMAIN last.pre.table_settings
       /\ OthersUnchanged
       /\ table_settings[last.table_id]
            = [last.pre.table_settings[last.table_id] EXCEPT
                 !.table_name = last.args.table_name,
                 !.columns = last.args.columns,
                 !.display_columns = last.args.display_columns]

\* the columns of a table holding a row were permuted and relabelled
C11_Witness ==
  /\ last.op = "update_table"
  /\ OnExisting
  /\ ToSet(OldColumns) = ToSet(last.args.columns)
  /\ OldColumns # last.args.columns
  /\ OldRows # <<>>
  /\ table_settings[last.table_id].display_columns
       # last.pre.table_settings[last.table_id].display_columns

\* C12: after an update_table that returns and changes the column set, the
\* table holds one row per pre-existing row, each with its old value in
\* every shared column and NULL in every column only the new set has
C12_RowSurvivalAcrossMigration ==
  (/\ last.op = "update_table"
   /\ last.ok
   /\ OnExisting
   /\ ToSet(OldColumns) # ToSet(last.args.columns))
    => /\ Len(NewRows) = Len(OldRows)
       /\ \A i \in 1..Len(NewRows) :
            \A c \in ToSet(last.args.columns) :
              NewRows[i].vals[c] = IF c \in ToSet(OldColumns)
                                   THEN OldRows[i].vals[c] ELSE NULL

\* C13: update_table_order returns, gives every existing definition named
\* in the mapping the supplied display_order, leaves the display_order of
\* the others, adds no catalog entry, and changes no table_name, columns,
\* display_columns, physical table or row
C13_ReorderFrame ==
  last.op = "update_table_order"
    => /\ last.ok
       /\ tables = last.pre.tables
       /\ DOMAIN table_settings = DOMAIN last.pre.table_settings
       /\ \A t \in DOMAIN table_settings :
            table_settings[t]
              = [last.pre.table_settings[t] EXCEPT
                   !.display_order = IF t \in DOMAIN last.args
                                     THEN last.args[t] ELSE @]

\* a mapping that names an unknown table_id, moves an existing definition
\* and leaves another existing definition unnamed
C13_Witness ==
  /\ last.op = "update_table_order"
  /\ DOMAIN last.args \ DOMAIN last.pre.table_settings # {}
  /\ DOMAIN last.pre.table_settings \ DOMAIN last.args # {}
  /\ \E t \in DOMAIN last.args \cap DOMAIN table_settings :
       table_settings[t].display_order
         # last.pre.table_settings[t].display_order

\* C14: after an update_table_order whose mapping gives an existing
\* "pantry" a non-zero rank, pantry has display_order 0 and the other
\* definitions have the display_orders 1..N-1, each once
C14_ReorderNormalization ==
  (/\ last.op = "update_table_order"
   /\ "pantry" \in DOMAIN last.pre.table_settings
   /\ "pantry" \in DOMAIN last.args
   /\ last.args["pantry"] # 0)
    => /\ table_settings["pantry"].display_order = 0
       /\ {table_settings[t].display_order :
              t \in DOMAIN table_settings \ {"pantry"}}
            = 1..(Cardinality(DOMAIN table_settings) - 1)

\* C15: after a create_table or delete_table that returns, the
\* display_order values of the N definitions are 0..N-1, each used once
C15_ContiguousRanks ==
  (last.op \in {"create_table", "delete_table"} /\ last.ok)
    => /\ {table_settings[t].display_order : t \in DOMAIN table_settings}
            = 0..(Cardinality(DOMAIN table_settings) - 1)
       /\ \A t, u \in DOMAIN table_settings :
            table_settings[t].display_order = table_settings[u].display_order
              => t = u

\* C19: a delete_table that returns removes the catalog entry and the
\* physical table of its table_id and nothing else: every other definition
\* and every other physical table, with its rows, is as it was
C19_DeleteEffectAndFrame ==
  (last.op = "delete_table" /\ last.ok)
    => /\ DOMAIN table_settings = DOMAIN last.pre.table_settings \ {last.table_id}
       /\ DOMAIN tables = DOMAIN last.pre.tables \ {last.table_id}
       /\ OthersUnchanged
       /\ OtherTablesUnchanged

\* a table holding a row was deleted beside another definition
C19_Witness ==
  /\ last.op = "delete_table"
  /\ last.ok
  /\ OnExisting
  /\ OldRows # <<>>
  /\ DOMAIN table_settings # {}

\* C20: a create_table that returns for a table_id the catalog did not hold
\* adds the catalog entry of that table_id with the table_name, columns and
\* display_columns passed and an empty physical table with the columns as
\* its fields; every other definition, physical table and row is as it was
C20_CreateEffect ==
  (last.op = "create_table" /\ last.ok /\ ~OnExisting)
    => /\ DOMAIN table_settings = DOMAIN last.pre.table_settings \cup {last.table_id}
       /\ DOMAIN tables = DOMAIN last.pre.tables \cup {last.table_id}
       /\ table_settings[last.table_id].table_name = last.args.table_name
       /\ table_settings[last.table_id].columns = last.args.columns
       /\ table_settings[last.table_id].display_columns = last.args.display_columns
       /\ tables[last.table_id] = [fields |-> last.args.columns, rows |-> <<>>]
       /\ OthersUnchanged
       /\ OtherTablesUnchanged

\* a table was created beside a table that holds a row
C20_Witness ==
  /\ last.op = "create_table"
  /\ last.ok
  /\ ~OnExisting
  /\ \E t \in DOMAIN last.pre.tables : last.pre.tables[t].rows # <<>>
  /\ last.args.columns # last.args.display_columns

\* the columns list a route derives from the display_columns field of a form
RouteColumns(form) == StrSeq(columns_of(display_columns_of(form.display_columns)))

\* C16: after add_table, edit_table, delete and reorder requests, every
\* definition of the catalog has a columns list with no repeated identifier
C16_UniqueColumns ==
  \A t \in DOMAIN table_settings : NoDuplicates(table_settings[t].columns)

\* C17: an add_table or edit_table request whose labels derive a columns
\* list with a repeated identifier fails and leaves the catalog and every
\* physical table as they were
C17_InvalidSchemaOnCollidingLabels ==
  (/\ last.op \in {"add_table", "edit_table"}
   /\ ~NoDuplicates(RouteColumns(last.args)))
    => /\ ~last.ok
       /\ Db = last.pre

\* the labels the catalog can hold, as text: those of the seeded definitions
\* and those the submitted display_columns fields split into
KnownLabels ==
  { <<"I", "t", "e", "m">>,
    <<"D", "a", "t", "e", " ", "o", "f", " ", "P", "u", "r", "c", "h", "a",
      "s", "e">>,
    <<"W", "e", "i", "g", "h", "t">>,
    <<"A", "m", "o", "u", "n", "t">> }
  \cup UNION {ToSet(display_columns_of(f)) : f \in RouteDisplayColumns}

\* C18: after at least one add_table, edit_table, delete or reorder
\* request, every definition has as many display_columns as columns, and
\* columns[i] is the identifier derived from the label display_columns[i]
C18_LabelColumnAlignment ==
  last.op # "init_database"
    => \A t \in DOMAIN table_settings :
         /\ Len(table_settings[t].display_columns) = Len(table_settings[t].columns)
         /\ \A i \in 1..Len(table_settings[t].display_columns) :
              \E label \in KnownLabels :
                /\ Str(label) = table_settings[t].display_columns[i]
                /\ i <= Len(table_settings[t].columns)
                /\ Str(col_name(label)) = table_settings[t].columns[i]

\* C21: init_database on an empty catalog leaves exactly the definitions
\* pantry, with columns {item, date_of_purchase, amount} at rank 0, and
\* basement_freezer, with columns {item, date_of_purchase, weight, amount}
\* at rank 1, each with an empty physical table; on a non-empty catalog it
\* adds no definition and no physical table
C21_Seeding ==
  last.op = "init_database"
    => IF DOMAIN last.pre.table_settings = {}
       THEN /\ DOMAIN table_settings = {"pantry", "basement_freezer"}
            /\ DOMAIN tables = {"pantry", "basement_freezer"}
            /\ ToSet(table_settings["pantry"].columns)
                 = {"item", "date_of_purchase", "amount"}
            /\ table_settings["pantry"].display_order = 0
            /\ ToSet(table_settings["basement_freezer"].columns)
                 = {"item", "date_of_purchase", "weight", "amount"}
            /\ table_settings["basement_freezer"].display_order = 1
            /\ \A t \in DOMAIN tables : tables[t].rows = <<>>
       ELSE /\ DOMAIN table_settings = DOMAIN last.pre.table_settings
            /\ DOMAIN tables = DOMAIN last.pre.tables

\* ensure_pantry_first found pantry in the catalog at a non-zero rank
PantryWasNotFirst ==
  /\ "pantry" \in DOMAIN last.pre.table_settings
  /\ last.pre.table_settings["pantry"].display_order # 0

\* C26: a restart on a non-empty catalog changes no table_name, columns,
\* display_columns, physical table or row; when pantry was at a non-zero
\* rank it puts pantry at 0 and the other N-1 definitions at the ranks
\* 1..N-1, each once, every pair that had different ranks keeping its
\* order; otherwise it changes no rank
C26_StartupNormalization ==
  (last.op = "init_database" /\ DOMAIN last.pre.table_settings # {})
    => /\ tables = last.pre.tables
       /\ DOMAIN table_settings = DOMAIN last.pre.table_settings
       /\ \A t \in DOMAIN table_settings :
            [table_settings[t] EXCEPT !.display_order = 0]
              = [last.pre.table_settings[t] EXCEPT !.display_order = 0]
       /\ IF PantryWasNotFirst
          THEN /\ table_settings["pantry"].display_order = 0
               /\ {table_settings[t].display_order :
                     t \in DOMAIN table_settings \ {"pantry"}}
                    = 1..(Cardinality(DOMAIN table_settings) - 1)
               /\ \A t, u \in DOMAIN table_settings \ {"pantry"} :
                    /\ table_settings[t].display_order
                         = table_settings[u].display_order => t = u
                    /\ last.pre.table_settings[t].display_order
                         < last.pre.table_settings[u].display_order
                       => table_settings[t].display_order
                            < table_settings[u].display_order
          ELSE \A t \in DOMAIN table_settings :
                 table_settings[t].display_order
                   = last.pre.table_settings[t].display_order

\* a restart found pantry behind two definitions of different ranks, the
\* one with the larger rank tied with pantry
C26_Witness ==
  /\ last.op = "init_database"
  /\ PantryWasNotFirst
  /\ \E t, u \in DOMAIN last.pre.table_settings \ {"pantry"} :
       /\ last.pre.table_settings[t].display_order
            < last.pre.table_settings[u].display_order
       /\ last.pre.table_settings[u].display_order
            = last.pre.table_settings["pantry"].display_order

\* C23: an update_table call, whether it migrates or not and whether it
\* returns or raises, leaves the set of table_ids of the catalog and of the
\* physical tables, the display_order of every definition, and every
\* definition and physical table other than the edited one as they were
C23_EditFrame ==
  last.op = "update_table"
    => /\ DOMAIN table_settings = DOMAIN last.pre.table_settings
       /\ DOMAIN tables = DOMAIN last.pre.tables
       /\ \A t \in DOMAIN table_settings :
            table_settings[t].display_order
              = last.pre.table_settings[t].display_order
       /\ OthersUnchanged
       /\ OtherTablesUnchanged

\* a migration that returned while another table held a row
C23_Witness ==
  /\ last.op = "update_table"
  /\ last.ok
  /\ OnExisting
  /\ ToSet(OldColumns) # ToSet(last.args.columns)
  /\ \E t \in DOMAIN tables \ {last.table_id} : tables[t].rows # <<>>

\* C25: without reorder requests and without a delete of pantry, pantry is
\* the first entry of get_tables_config()
C25_PantryDisplayedFirst ==
  /\ "pantry" \in DOMAIN table_settings
  /\ get_tables_config(Db)[1] = "pantry"

\* the identifier of a label as the derivation is described: each character
\* lowercased; blank, hyphen, ampersand, parentheses and slash turned into
\* an underscore; every other character that is no letter, digit or
\* underscore removed; of a run of underscores only the first kept; the
\* underscore at either end removed
DerivedIdentifier(label) ==
  LET lowered(c) ==
        IF \E k \in 1..26 : Uppercase[k] = c
        THEN Lowercase[CHOOSE k \in 1..26 : Uppercase[k] = c] ELSE c
      mapped == [i \in 1..Len(label) |->
                   IF label[i] \in {" ", "-", "&", "(", ")", "/"}
                   THEN "_" ELSE lowered(label[i])]
      kept == SelectSeq(mapped, LAMBDA c : c = "_" \/ c \in ToSet(Lowercase)
                                             \/ c \in ToSet(Digits))
      first == {i \in 1..Len(kept) : ~(kept[i] = "_" /\ i > 1 /\ kept[i - 1] = "_")}
      nth(n) == CHOOSE i \in first : Cardinality({j \in first : j < i}) = n - 1
      single == [n \in 1..Cardinality(first) |-> kept[nth(n)]]
      lo == IF single # <<>> /\ single[1] = "_" THEN 2 ELSE 1
      hi == IF single # <<>> /\ single[Len(single)] = "_"
            THEN Len(single) - 1 ELSE Len(single)
  IN SubSeq(single, lo, hi)

\* only small letters, digits and single underscores, none at either end
WellFormedIdentifier(text) ==
  /\ \A i \in 1..Len(text) :
       text[i] = "_" \/ text[i] \in ToSet(Lowercase) \/ text[i] \in ToSet(Digits)
  /\ \A i \in 1..(Len(text) - 1) : ~(text[i] = "_" /\ text[i + 1] = "_")
  /\ text # <<>> => text[1] # "_" /\ text[Len(text)] # "_"

\* C24: the columns add_table stores are the identifiers of its labels as
\* the derivation is described (Str is one-to-one, so the stored string is
\* that text), which are well formed; 'Best-By (Date)' gives best_by_date
\* and 'Date of Purchase' gives date_of_purchase
C24_ColumnNameDerivation ==
  (last.op = "add_table" /\ last.ok)
    => LET labels == display_columns_of(last.args.display_columns)
           columns == table_settings[last.table_id].columns
       IN /\ Len(columns) = Len(labels)
          /\ \A i \in 1..Len(labels) :
               /\ columns[i] = Str(DerivedIdentifier(labels[i]))
               /\ WellFormedIdentifier(DerivedIdentifier(labels[i]))
               /\ Str(labels[i]) = "Best-By (Date)" => columns[i] = "best_by_date"
               /\ Str(labels[i]) = "Date of Purchase"
                    => columns[i] = "date_of_purchase"

\* the label of Scenario E was submitted and its column stored
C24_Witness ==
  /\ last.op = "add_table"
  /\ last.ok
  /\ Str(last.args.display_columns) = "Best-By (Date)"
  /\ table_settings[last.table_id].columns = <<"best_by_date">>

\* C27: an edit_table request that resubmits the display labels a
\* definition has derives the definition's column set and returns, and
\* every physical table, with its fields and rows, is as it was
C27_RenameOnlyEditLosesNoData ==
  (/\ last.op = "edit_table"
   /\ OnExisting
   /\ StrSeq(display_columns_of(last.args.display_columns))
        = last.pre.table_settings[last.table_id].display_columns)
    => /\ ToSet(RouteColumns(last.args)) = ToSet(OldColumns)
       /\ last.ok
       /\ tables = last.pre.tables

\* C28: an update_table that changes the column set of a table t while a
\* definition with table_id "<t>_temp" exists raises, and the whole store,
\* t and "<t>_temp" with their catalog rows, fields and rows included, is
\* as it was before the call
C28_TempNameCollisionIsSafe ==
  (/\ last.op = "update_table"
   /\ OnExisting
   /\ temp_table(last.table_id) \in DOMAIN last.pre.table_settings
   /\ ToSet(OldColumns) # ToSet(last.args.columns))
    => /\ ~last.ok
       /\ Db = last.pre

\* the migration was tried while the user table "<t>_temp" held a row
C28_Witness ==
  /\ last.op = "update_table"
  /\ OnExisting
  /\ temp_table(last.table_id) \in DOMAIN last.pre.tables
  /\ ToSet(OldColumns) # ToSet(last.args.columns)
  /\ last.pre.tables[temp_table(last.table_id)].rows # <<>>
  /\ last.pre.tables[temp_table(last.table_id)].fields
       # last.pre.tables[last.table_id].fields

\* C29: a delete_item or edit_item request whose tab names no table_id of
\* the catalog removes and modifies no row of any table
C29_RowOperationsOnlyTouchNamedTable ==
  (last.op \in {"delete_item", "edit_item"} /\ ~OnExisting)
    => tables = last.pre.tables

\* both calls have finished, and each read the catalog before either wrote
BothDoneInterleaved(op) ==
  /\ DOMAIN calls = Procs
  /\ \A p \in Procs : calls[p].op = op /\ calls[p].pc = "done" /\ calls[p].after = 0

\* C22: after two interleaved update_table calls on the same existing
\* table_id, the column set of the catalog row and the field set of the
\* physical table both equal the column set of the call that committed last
C22_EditRaceLastWriterWins ==
  (/\ BothDoneInterleaved("update_table")
   /\ calls["A"].table_id = calls["B"].table_id
   /\ calls["A"].table_id \in DOMAIN calls["A"].seen.table_settings
   /\ \E p \in Procs : calls[p].ok)
    => LET w == CHOOSE p \in Procs :
                  /\ calls[p].ok
                  /\ \A q \in Procs : calls[q].ok => calls[q].seq <= calls[p].seq
           t == calls[w].table_id
       IN /\ ToSet(table_settings[t].columns) = ToSet(calls[w].args.columns)
          /\ ToSet(tables[t].fields) = ToSet(calls[w].args.columns)

\* C30: two interleaved create_table calls for two different new table_ids
\* both return, and the two new definitions have different display_orders
C30_ConcurrentCreatesDistinctRanks ==
  (/\ BothDoneInterleaved("create_table")
   /\ calls["A"].table_id # calls["B"].table_id)
    => /\ calls["A"].args.columns # <<>> /\ NoDuplicates(calls["A"].args.columns)
          /\ NoDuplicates(calls["B"].args.columns)
          => calls["A"].ok /\ calls["B"].ok
       /\ calls["A"].ok /\ calls["B"].ok
          => table_settings[calls["A"].table_id].display_order
               # table_settings[calls["B"].table_id].display_order

====
